---- MODULE Spec2Model ----
(***************************************************************************)
(* Conway's Game of Life (Code/gameoflife.py): the rule evaluator          *)
(* update_cell, the generation step update_grid with its two boundary      *)
(* policies, the generator create_game and the batch runner run_game.      *)
(*                                                                         *)
(* An array is a record [dtype, cells]; cells is a 0-based matrix          *)
(* [0..H-1 -> [0..W-1 -> Int]] holding the numeric value of every element  *)
(* (a numpy bool_ True has the numeric value 1, False 0).  Arrays live in   *)
(* `heap`, a map from object references to arrays; names hold references.  *)
(***************************************************************************)
EXTENDS Integers, Sequences, FiniteSets

VARIABLES
    grid,               \* the caller's seed array (argument `grid`)
    periodic_boundary,  \* argument `periodic_boundary`
    num_generations,    \* argument `num_generations` of run_game
    caller,             \* what the caller did: "idle", "lazy" (create_game), "batch" (run_game)
    gen_state,          \* generator object: "none", "created", "suspended", "closed"
    gen_grid,           \* local `grid` of the generator frame: a reference into heap
    heap,               \* the arrays that exist, by reference
    pulled,             \* what the lazy consumer's pulls returned, as read when returned
    pulled_ref,         \* the references the lazy consumer's pulls returned, in order
    pulls,              \* number of send(None) made on the current generator
    updates,            \* number of update_grid calls made by the current generator
    last_pull,          \* outcome of the latest send(None): "none", "yield", "raise", "stop"
    run_pc,             \* run_game: "idle", "loop", "returned", "raised"
    i,                  \* run_game's loop variable
    results,            \* run_game's `results` array: [0..N-1 -> cells]
    error,              \* the exception that reached the caller, "none" if none
    calls,              \* the update_cell calls made by the latest update_grid
    run_no,             \* 1 for the first run_game call, 2 for a repeated one
    first_run           \* how the first run_game call ended, once it is repeated

vars == <<grid, periodic_boundary, num_generations, caller, gen_state, gen_grid, heap,
          pulled, pulled_ref, pulls, updates, last_pull, run_pc, i, results, error,
          calls, run_no, first_run>>

----
\* Bounds of the model.

\* Every binary seed with at most MaxCells cells (H * W <= MaxCells) is tried.
MaxCells == 9
\* Seeds with values outside {0,1}: cells in 0..MaxVal, at most MaxBadCells cells.
MaxVal == 2
MaxBadCells == 3
\* Pattern seeds (two corners, blinker, block) up to MaxPatH x MaxPatW.
MaxPatH == 6
MaxPatW == 6
\* Seeds with a dead border: every binary interior of at most MaxInterior cells.
MaxInterior == 5
\* Seeds of a repeated run_game: binary with at most MaxRerunCells cells.
MaxRerunCells == 6
\* num_generations ranges over -MaxNeg..MaxGen.
MaxGen == 2
MaxNeg == 1
\* The lazy consumer pulls at most MaxPulls times.
MaxPulls == 3

----
\* Arrays.

Height(cells) == Cardinality(DOMAIN cells)
Width(cells) == Cardinality(DOMAIN cells[0])

Matrices(h, w, vals) == [0..h-1 -> [0..w-1 -> vals]]

Dims(n) == {d \in (1..n) \X (1..n) : d[1] * d[2] <= n}

\* grid.astype(bool) / grid.astype(int)
astype(a, dtype) ==
    IF dtype = "bool"
    THEN [dtype |-> "bool",
          cells |-> [r \in DOMAIN a.cells |-> [c \in DOMAIN a.cells[r] |->
                        IF a.cells[r][c] # 0 THEN 1 ELSE 0]]]
    ELSE [dtype |-> dtype, cells |-> a.cells]

\* np.array_equal(a, b): same shape and numerically equal elements
array_equal(a, b) ==
    /\ DOMAIN a.cells = DOMAIN b.cells
    /\ \A r \in DOMAIN a.cells :
          /\ DOMAIN a.cells[r] = DOMAIN b.cells[r]
          /\ \A c \in DOMAIN a.cells[r] : a.cells[r][c] = b.cells[r][c]

\* mutant: a negative dimension is taken as 0
zeros3_clamped(n, h, w) ==
    [raised |-> FALSE,
     value |-> [k \in 0..n-1 |-> [r \in 0..h-1 |-> [c \in 0..w-1 |-> 0]]]]

\* np.zeros((n, h, w)): a negative dimension raises ValueError
zeros3(n, h, w) ==
    IF n < 0 \/ h < 0 \/ w < 0
    THEN [raised |-> TRUE, value |-> <<>>]
    ELSE [raised |-> FALSE,
          value |-> [k \in 0..n-1 |-> [r \in 0..h-1 |-> [c \in 0..w-1 |-> 0]]]]

----
\* update_cell

\* mutant: the test `cell == 1` of the second branch is dropped
update_cell_no_cell_test(cell, num_neighbors) ==
    IF num_neighbors = 3 THEN 1
    ELSE IF num_neighbors = 2 THEN 1
    ELSE 0

\* mutant: the survival branch on two neighbours is missing
update_cell_three_only(cell, num_neighbors) ==
    IF num_neighbors = 3 THEN 1
    ELSE 0

update_cell(cell, num_neighbors) ==
    IF num_neighbors = 3 THEN 1
    ELSE IF num_neighbors = 2 /\ cell = 1 THEN 1
    ELSE 0

----
\* update_grid

\* mutant: the columns are stacked the other way round, (grid[:, 0], grid, grid[:, -1]),
\* and so are the rows: the edge is repeated instead of wrapped
expand_periodic_repeat_edge(a) ==
    LET h == Height(a.cells)
        w == Width(a.cells)
        stacked == [r \in 0..h-1 |-> [c \in 0..w+1 |->
                       IF c = 0 THEN a.cells[r][0]
                       ELSE IF c = w+1 THEN a.cells[r][w-1]
                       ELSE a.cells[r][c-1]]]
    IN  [dtype |-> a.dtype,
         cells |-> [r \in 0..h+1 |->
                       IF r = 0 THEN stacked[0]
                       ELSE IF r = h+1 THEN stacked[h-1]
                       ELSE stacked[r-1]]]

\* mutant: the vstack line is missing its wrap, the top and bottom rows are dead
expand_periodic_no_row_wrap(a) ==
    LET h == Height(a.cells)
        w == Width(a.cells)
        stacked == [r \in 0..h-1 |-> [c \in 0..w+1 |->
                       IF c = 0 THEN a.cells[r][w-1]
                       ELSE IF c = w+1 THEN a.cells[r][0]
                       ELSE a.cells[r][c-1]]]
    IN  [dtype |-> a.dtype,
         cells |-> [r \in 0..h+1 |->
                       IF r = 0 \/ r = h+1 THEN [c \in 0..w+1 |-> 0]
                       ELSE stacked[r-1]]]

\* periodic: column_stack((grid[:, -1], grid, grid[:, 0])) then
\* vstack((grid[-1], grid, grid[0]))
expand_periodic(a) ==
    LET h == Height(a.cells)
        w == Width(a.cells)
        stacked == [r \in 0..h-1 |-> [c \in 0..w+1 |->
                       IF c = 0 THEN a.cells[r][w-1]
                       ELSE IF c = w+1 THEN a.cells[r][0]
                       ELSE a.cells[r][c-1]]]
    IN  [dtype |-> a.dtype,
         cells |-> [r \in 0..h+1 |->
                       IF r = 0 THEN stacked[h-1]
                       ELSE IF r = h+1 THEN stacked[0]
                       ELSE stacked[r-1]]]

\* mutant: the absolute branch pads with the wrapped columns and rows
expand_absolute_wrapping(a) ==
    LET h == Height(a.cells)
        w == Width(a.cells)
    IN  [dtype |-> "float",
         cells |-> [r \in 0..h+1 |-> [c \in 0..w+1 |->
                       a.cells[(r - 1 + h) % h][(c - 1 + w) % w]]]]

\* mutant: temp_grid = np.ones(...), the padding is alive
expand_absolute_ones(a) ==
    LET h == Height(a.cells)
        w == Width(a.cells)
    IN  [dtype |-> "float",
         cells |-> [r \in 0..h+1 |-> [c \in 0..w+1 |->
                       IF r \in 1..h /\ c \in 1..w THEN a.cells[r-1][c-1] ELSE 1]]]

\* absolute: temp_grid = zeros((h+2, w+2)); temp_grid[1:-1, 1:-1] = grid
expand_absolute(a) ==
    LET h == Height(a.cells)
        w == Width(a.cells)
    IN  [dtype |-> "float",
         cells |-> [r \in 0..h+1 |-> [c \in 0..w+1 |->
                       IF r \in 1..h /\ c \in 1..w THEN a.cells[r-1][c-1] ELSE 0]]]

expand(a, periodic) == IF periodic THEN expand_periodic(a) ELSE expand_absolute(a)

\* sub_grid = grid[i:i + 3, j:j + 3]
sub_grid(e, ii, jj) == [a \in 0..2 |-> [b \in 0..2 |-> e.cells[ii + a][jj + b]]]

\* np.sum(sub_grid)
np_sum(s) ==
    s[0][0] + s[0][1] + s[0][2] + s[1][0] + s[1][1] + s[1][2] + s[2][0] + s[2][1] + s[2][2]

\* mutant: the cell's own value is not subtracted from the sum
cell_call_count_self(e, ii, jj) ==
    LET s == sub_grid(e, ii, jj)
        cell == s[1][1]
        num_neighbors == np_sum(s)
    IN  [cell |-> cell, num_neighbors |-> num_neighbors,
         result |-> update_cell(cell, num_neighbors)]

\* one iteration of the double loop: the arguments and the result of update_cell
cell_call(e, ii, jj) ==
    LET s == sub_grid(e, ii, jj)
        cell == s[1][1]
        num_neighbors == np_sum(s) - cell
    IN  [cell |-> cell, num_neighbors |-> num_neighbors,
         result |-> update_cell(cell, num_neighbors)]

\* new_grid[i, j] = ... stores into a bool_ array
to_bool(v) == IF v # 0 THEN 1 ELSE 0

\* the double loop: for every cell, the arguments and the result of update_cell
update_grid_run(a, periodic) ==
    LET h == Height(a.cells)
        w == Width(a.cells)
        e == expand(a, periodic)
    IN  [ii \in 0..h-1 |-> [jj \in 0..w-1 |-> cell_call(e, ii, jj)]]

\* mutant: new_grid gets the shape of the expanded grid (`shape` is read after the
\* expansion); the cells outside the loop's range stay 0
new_grid_padded_shape(run) ==
    LET h == Height(run)
        w == Width(run)
    IN  [dtype |-> "bool",
         cells |-> [ii \in 0..h+1 |-> [jj \in 0..w+1 |->
                       IF ii < h /\ jj < w THEN to_bool(run[ii][jj].result) ELSE 0]]]

\* new_grid = np.zeros(shape=grid.shape, dtype=np.bool_), filled by the loop
new_grid(run) ==
    [dtype |-> "bool",
     cells |-> [ii \in DOMAIN run |-> [jj \in DOMAIN run[ii] |->
                   to_bool(run[ii][jj].result)]]]

update_grid(a, periodic) == new_grid(update_grid_run(a, periodic))

update_grid_calls(a, periodic) ==
    LET run == update_grid_run(a, periodic)
    IN  {run[ii][jj] : ii \in DOMAIN run, jj \in DOMAIN run[0]}

----
\* create_game: the generator

\* mutant: both sides of the comparison are converted to bool
is_binary_both_cast(a) == array_equal(astype(a, "bool"), astype(a, "bool"))

\* the check at the top of the generator body
is_binary(a) == array_equal(a, astype(a, "bool"))

\* mutant: the loop body is `grid = update_grid(...)` then `yield grid`, so the
\* seed itself is never yielded
resume_update_first(st, g, periodic) ==
    IF st = "created"
    THEN IF ~is_binary(g)
         THEN [state |-> "closed", grid |-> g, out |-> "raise", calls |-> {}, updates |-> 0]
         ELSE [state |-> "suspended", grid |-> update_grid(astype(g, "int"), periodic),
               out |-> "yield", calls |-> update_grid_calls(astype(g, "int"), periodic),
               updates |-> 1]
    ELSE IF st = "suspended"
    THEN [state |-> "suspended", grid |-> update_grid(g, periodic), out |-> "yield",
          calls |-> update_grid_calls(g, periodic), updates |-> 1]
    ELSE [state |-> "closed", grid |-> g, out |-> "stop", calls |-> {}, updates |-> 0]

\* mutant: `while True` is an `if True`: after one update the body ends
resume_single_pass(st, g, periodic) ==
    IF st = "created"
    THEN IF ~is_binary(g)
         THEN [state |-> "closed", grid |-> g, out |-> "raise", calls |-> {}, updates |-> 0]
         ELSE [state |-> "suspended", grid |-> astype(g, "int"), out |-> "yield",
               calls |-> {}, updates |-> 0]
    ELSE IF st = "suspended"
    THEN [state |-> "closed", grid |-> update_grid(g, periodic), out |-> "stop",
          calls |-> update_grid_calls(g, periodic), updates |-> 1]
    ELSE [state |-> "closed", grid |-> g, out |-> "stop", calls |-> {}, updates |-> 0]

\* mutant: the loop body updates twice before it yields
resume_two_steps(st, g, periodic) ==
    IF st = "created"
    THEN IF ~is_binary(g)
         THEN [state |-> "closed", grid |-> g, out |-> "raise", calls |-> {}, updates |-> 0]
         ELSE [state |-> "suspended", grid |-> astype(g, "int"), out |-> "yield",
               calls |-> {}, updates |-> 0]
    ELSE IF st = "suspended"
    THEN [state |-> "suspended",
          grid |-> update_grid(update_grid(g, periodic), periodic), out |-> "yield",
          calls |-> update_grid_calls(update_grid(g, periodic), periodic), updates |-> 2]
    ELSE [state |-> "closed", grid |-> g, out |-> "stop", calls |-> {}, updates |-> 0]

\* grid = update_grid(grid, periodic_boundary); yield grid, given the run of
\* update_grid's loop
yield_update(run) ==
    [state |-> "suspended", grid |-> new_grid(run), out |-> "yield",
     calls |-> {run[ii][jj] : ii \in DOMAIN run, jj \in DOMAIN run[0]}, updates |-> 1]

\* game.send(None) on a generator in state st with frame variable g
resume(st, g, periodic) ==
    IF st = "created"
    THEN IF ~is_binary(g)
         THEN [state |-> "closed", grid |-> g, out |-> "raise", calls |-> {}, updates |-> 0]
         ELSE [state |-> "suspended", grid |-> astype(g, "int"), out |-> "yield",
               calls |-> {}, updates |-> 0]
    ELSE IF st = "suspended"
    THEN yield_update(update_grid_run(g, periodic))
    ELSE [state |-> "closed", grid |-> g, out |-> "stop", calls |-> {}, updates |-> 0]

----
\* Where the arrays are stored.

\* the caller's seed array
SeedRef == 0

\* a new array object holding `value`
new_array(hp, value) ==
    LET n == Cardinality(DOMAIN hp)
    IN  [heap |-> [o \in DOMAIN hp \cup {n} |-> IF o = n THEN value ELSE hp[o]],
         ref |-> n]

\* mutant: new_grid is the array passed in, `new_grid = grid`, and is written in place
update_grid_store_in_place(hp, ref, value) ==
    [heap |-> [hp EXCEPT ![ref] = value], ref |-> ref]

\* update_grid: new_grid = np.zeros(...) is a new array, filled and returned;
\* the array passed in is only read
update_grid_store(hp, ref, value) == new_array(hp, value)

\* what a send(None) with outcome r leaves in the heap, and what the frame's
\* `grid` refers to afterwards: grid = grid.astype(int) the first time,
\* grid = update_grid(grid, ...) later
resume_store(st, hp, ref, r) ==
    IF r.out # "yield" THEN [heap |-> hp, ref |-> ref]
    ELSE IF st = "created" THEN new_array(hp, r.grid)
    ELSE update_grid_store(hp, ref, r.grid)

NonBinaryError == "ValueError: Grid contains non-binary values."
NegativeDimError == "ValueError: negative dimensions are not allowed"
StopIteration == "StopIteration"

----
\* Seeds

BinarySeeds ==
    UNION {Matrices(d[1], d[2], {0, 1}) : d \in Dims(MaxCells)}

AnySeeds ==
    UNION {Matrices(d[1], d[2], 0..MaxVal) : d \in Dims(MaxBadCells)}

\* exactly the corners (0,0) and (h-1,w-1) alive
TwoCorner(h, w) ==
    [r \in 0..h-1 |-> [c \in 0..w-1 |->
        IF (r = 0 /\ c = 0) \/ (r = h-1 /\ c = w-1) THEN 1 ELSE 0]]

\* three live cells in a row, centred, on an otherwise dead h x w grid
Blinker(h, w) ==
    [r \in 0..h-1 |-> [c \in 0..w-1 |->
        IF r = h \div 2 /\ c \in (w \div 2 - 1)..(w \div 2 + 1) THEN 1 ELSE 0]]

\* a 2 x 2 live block with its top left cell at (r0, c0) on an otherwise dead grid
Block(h, w, r0, c0) ==
    [r \in 0..h-1 |-> [c \in 0..w-1 |->
        IF r \in r0..r0+1 /\ c \in c0..c0+1 THEN 1 ELSE 0]]

\* `inner` surrounded by one dead row or column on every side
WithDeadBorder(inner) ==
    LET h == Height(inner)
        w == Width(inner)
    IN  [r \in 0..h+1 |-> [c \in 0..w+1 |->
            IF r \in 1..h /\ c \in 1..w THEN inner[r-1][c-1] ELSE 0]]

DeadBorderSeeds ==
    {WithDeadBorder(m) : m \in UNION {Matrices(d[1], d[2], {0, 1}) : d \in Dims(MaxInterior)}}

PatternSeeds ==
    {TwoCorner(h, w) : h \in 1..MaxPatH, w \in 1..MaxPatW}
    \cup {Blinker(h, w) : h \in 5..MaxPatH, w \in 5..MaxPatW}
    \cup UNION {{Block(h, w, r0, c0) : r0 \in 1..h-3, c0 \in 1..w-3} :
                    h \in 4..MaxPatH, w \in 4..MaxPatW}
    \cup DeadBorderSeeds

Seeds == BinarySeeds \cup AnySeeds \cup PatternSeeds

RerunSeeds ==
    UNION {Matrices(d[1], d[2], {0, 1}) : d \in Dims(MaxRerunCells)} \cup AnySeeds

----
InitWith(seeds) ==
    /\ grid \in {[dtype |-> "int", cells |-> m] : m \in seeds}
    /\ periodic_boundary \in BOOLEAN
    /\ num_generations = 0
    /\ caller = "idle"
    /\ gen_state = "none"
    /\ gen_grid = SeedRef
    /\ heap = [o \in {SeedRef} |-> grid]
    /\ pulled = <<>>
    /\ pulled_ref = <<>>
    /\ pulls = 0
    /\ updates = 0
    /\ last_pull = "none"
    /\ run_pc = "idle"
    /\ i = 0
    /\ results = <<>>
    /\ error = "none"
    /\ calls = {}
    /\ run_no = 1
    /\ first_run = [pc |-> "none", results |-> <<>>, error |-> "none"]

Init == InitWith(Seeds)

\* game = create_game(grid, periodic_boundary): a generator object is made,
\* none of the body runs
CreateGame ==
    /\ caller = "idle"
    /\ caller' = "lazy"
    /\ gen_state' = "created"
    /\ gen_grid' = SeedRef
    /\ pulls' = 0
    /\ updates' = 0
    /\ UNCHANGED <<grid, periodic_boundary, num_generations, heap, pulled, pulled_ref,
                   last_pull, run_pc, i, results, error, calls, run_no, first_run>>

\* the consumer's next(game) / game.send(None)
Pull ==
    /\ caller = "lazy"
    /\ Len(pulled) < MaxPulls
    /\ last_pull # "stop"
    /\ \E r \in {resume(gen_state, heap[gen_grid], periodic_boundary)} :
       \E st \in {resume_store(gen_state, heap, gen_grid, r)} :
           /\ gen_state' = r.state
           /\ gen_grid' = st.ref
           /\ heap' = st.heap
           /\ last_pull' = r.out
           /\ calls' = r.calls
           /\ updates' = updates + r.updates
           /\ pulled' = IF r.out = "yield" THEN Append(pulled, st.heap[st.ref]) ELSE pulled
           /\ pulled_ref' = IF r.out = "yield" THEN Append(pulled_ref, st.ref)
                            ELSE pulled_ref
           /\ error' = IF r.out = "raise" THEN NonBinaryError
                       ELSE IF r.out = "stop" THEN StopIteration
                       ELSE error
    /\ pulls' = pulls + 1
    /\ UNCHANGED <<grid, periodic_boundary, num_generations, caller, run_pc, i, results,
                   run_no, first_run>>

\* mutant: the generator is made once and kept, a later call of run_game goes on
\* pulling from the one that exists
run_game_enter_keep_game(n) ==
    /\ num_generations' = n
    /\ caller' = "batch"
    /\ IF gen_state = "none"
       THEN /\ gen_state' = "created"
            /\ gen_grid' = SeedRef
            /\ pulls' = 0
            /\ updates' = 0
       ELSE UNCHANGED <<gen_state, gen_grid, pulls, updates>>
    /\ \E z \in {zeros3(n, Height(heap[SeedRef].cells), Width(heap[SeedRef].cells))} :
          IF z.raised
          THEN /\ run_pc' = "raised"
               /\ error' = NegativeDimError
               /\ results' = <<>>
          ELSE /\ run_pc' = "loop"
               /\ error' = "none"
               /\ results' = z.value
    /\ i' = 0
    /\ UNCHANGED <<grid, periodic_boundary, heap, pulled, pulled_ref, last_pull, calls>>

\* run_game, lines 135-136: game = create_game(...);
\* results = np.zeros((num_generations, grid.shape[0], grid.shape[1]))
run_game_enter(n) ==
    /\ num_generations' = n
    /\ caller' = "batch"
    /\ gen_state' = "created"
    /\ gen_grid' = SeedRef
    /\ pulls' = 0
    /\ updates' = 0
    /\ \E z \in {zeros3(n, Height(heap[SeedRef].cells), Width(heap[SeedRef].cells))} :
          IF z.raised
          THEN /\ run_pc' = "raised"
               /\ error' = NegativeDimError
               /\ results' = <<>>
          ELSE /\ run_pc' = "loop"
               /\ error' = "none"
               /\ results' = z.value
    /\ i' = 0
    /\ UNCHANGED <<grid, periodic_boundary, heap, pulled, pulled_ref, last_pull, calls>>

\* the caller's first run_game(grid, n, periodic_boundary)
RunGameCall ==
    /\ caller = "idle"
    /\ \E n \in (0 - MaxNeg)..MaxGen : run_game_enter(n)
    /\ UNCHANGED <<run_no, first_run>>

\* mutant: the store is results[i - 1] (index -1 is the last entry)
RunGameIter_store_before ==
    /\ run_pc = "loop"
    /\ i < num_generations
    /\ \E r \in {resume(gen_state, heap[gen_grid], periodic_boundary)} :
       \E st \in {resume_store(gen_state, heap, gen_grid, r)} :
           /\ gen_state' = r.state
           /\ gen_grid' = st.ref
           /\ heap' = st.heap
           /\ last_pull' = r.out
           /\ calls' = r.calls
           /\ updates' = updates + r.updates
           /\ IF r.out = "yield"
              THEN /\ results' = [results EXCEPT
                                    ![(i - 1 + num_generations) % num_generations] =
                                        astype(st.heap[st.ref], "float").cells]
                   /\ i' = i + 1
                   /\ run_pc' = run_pc
                   /\ error' = error
              ELSE /\ results' = results
                   /\ i' = i
                   /\ run_pc' = "raised"
                   /\ error' = IF r.out = "raise" THEN NonBinaryError ELSE StopIteration
    /\ pulls' = pulls + 1
    /\ UNCHANGED <<grid, periodic_boundary, num_generations, caller, pulled, pulled_ref,
                   run_no, first_run>>

\* run_game, lines 137-138: results[i] = game.send(None)
RunGameIter ==
    /\ run_pc = "loop"
    /\ i < num_generations
    /\ \E r \in {resume(gen_state, heap[gen_grid], periodic_boundary)} :
       \E st \in {resume_store(gen_state, heap, gen_grid, r)} :
           /\ gen_state' = r.state
           /\ gen_grid' = st.ref
           /\ heap' = st.heap
           /\ last_pull' = r.out
           /\ calls' = r.calls
           /\ updates' = updates + r.updates
           /\ IF r.out = "yield"
              THEN /\ results' = [results EXCEPT
                                    ![i] = astype(st.heap[st.ref], "float").cells]
                   /\ i' = i + 1
                   /\ run_pc' = run_pc
                   /\ error' = error
              ELSE /\ results' = results
                   /\ i' = i
                   /\ run_pc' = "raised"
                   /\ error' = IF r.out = "raise" THEN NonBinaryError ELSE StopIteration
    /\ pulls' = pulls + 1
    /\ UNCHANGED <<grid, periodic_boundary, num_generations, caller, pulled, pulled_ref,
                   run_no, first_run>>

\* run_game, line 139: return results
RunGameReturn ==
    /\ run_pc = "loop"
    /\ ~(i < num_generations)
    /\ run_pc' = "returned"
    /\ UNCHANGED <<grid, periodic_boundary, num_generations, caller, gen_state, gen_grid,
                   heap, pulled, pulled_ref, pulls, updates, last_pull, i, results, error,
                   calls, run_no, first_run>>

Next ==
    \/ CreateGame
    \/ Pull
    \/ RunGameCall
    \/ RunGameIter
    \/ RunGameReturn

Spec == Init /\ [][Next]_vars

----
\* A second, independent run_game with the same seed array, the same
\* num_generations and the same policy, once the first has ended.

InitRerun == InitWith(RerunSeeds)

RunGameAgain ==
    /\ caller = "batch"
    /\ run_no = 1
    /\ run_pc \in {"returned", "raised"}
    /\ first_run' = [pc |-> run_pc, results |-> results, error |-> error]
    /\ run_no' = 2
    /\ run_game_enter(num_generations)

NextRerun ==
    \/ RunGameCall
    \/ RunGameIter
    \/ RunGameReturn
    \/ RunGameAgain

SpecRerun == InitRerun /\ [][NextRerun]_vars

----
\* Reference definitions used to state the properties.

Offsets == {d \in {-1, 0, 1} \X {-1, 0, 1} : d # <<0, 0>>}

IsBinaryCells(cells) ==
    \A r \in DOMAIN cells : \A c \in DOMAIN cells[r] : cells[r][c] \in {0, 1}

\* B3/S23
B3S23(cell, n) == IF n = 3 \/ (n = 2 /\ cell = 1) THEN 1 ELSE 0

\* live cells among the positions around (r, c) that lie inside the grid
LiveInside(cells, r, c) ==
    Cardinality({d \in Offsets :
        /\ r + d[1] \in DOMAIN cells
        /\ c + d[2] \in DOMAIN cells[0]
        /\ cells[r + d[1]][c + d[2]] = 1})

\* live cells among the 8 offsets around (r, c) on the torus
LiveTorus(cells, r, c) ==
    Cardinality({d \in Offsets :
        cells[(r + d[1] + Height(cells)) % Height(cells)]
             [(c + d[2] + Width(cells)) % Width(cells)] = 1})

\* the pair (previous element, latest element) of the lazy consumer
HasStep == caller = "lazy" /\ Len(pulled) >= 2
Prev == pulled[Len(pulled) - 1].cells
Cur == pulled[Len(pulled)].cells

\* the k-th element (k >= 1) pulled from a fresh create_game(a, periodic)
Resumed(g, periodic) == resume(g.state, g.grid, periodic)

RECURSIVE GameAfter(_, _, _)
GameAfter(a, periodic, k) ==
    IF k = 0 THEN [state |-> "created", grid |-> a, out |-> "none", calls |-> {},
                   updates |-> 0]
    ELSE Resumed(GameAfter(a, periodic, k - 1), periodic)

----
\* C1: every call update_cell(cell, n) made by update_grid, cell in {0,1} and
\* n in 0..8, returns 1 if n = 3, 1 if n = 2 and cell = 1, and 0 otherwise.
C1_Rule ==
    \A k \in calls :
        /\ k.cell \in {0, 1}
        /\ k.num_neighbors \in 0..8
        /\ k.result = B3S23(k.cell, k.num_neighbors)

\* one update_grid in which a birth, a survival on 2, a dead cell left dead on 2
\* and a death by overcrowding all occur
C1_Witness ==
    /\ [cell |-> 0, num_neighbors |-> 3, result |-> 1] \in calls
    /\ [cell |-> 1, num_neighbors |-> 2, result |-> 1] \in calls
    /\ [cell |-> 0, num_neighbors |-> 2, result |-> 0] \in calls
    /\ [cell |-> 1, num_neighbors |-> 4, result |-> 0] \in calls

\* C2: the first pulled element has the seed's cell values and each later
\* pulled element is update_grid of the element pulled before it (stated of the
\* element pulled last: every element is the last one when it is pulled).
C2_LazySequence ==
    caller = "lazy" =>
        /\ Len(pulled) >= 1 => pulled[1].cells = grid.cells
        /\ Len(pulled) >= 2 =>
              pulled[Len(pulled)].cells =
                  update_grid(pulled[Len(pulled) - 1], periodic_boundary).cells

C2_Witness ==
    /\ caller = "lazy"
    /\ Len(pulled) = 3
    /\ pulled[2].cells # pulled[1].cells
    /\ pulled[3].cells # pulled[2].cells
    /\ pulled[3].cells # pulled[1].cells

\* C3: under the Absolute policy every cell of the next generation is
\* update_cell of the cell and the number of live cells among its neighbours
\* that lie inside the grid.
C3_Absolute ==
    (HasStep /\ ~periodic_boundary) =>
        \A r \in DOMAIN Prev : \A c \in DOMAIN Prev[r] :
            Cur[r][c] = update_cell(Prev[r][c], LiveInside(Prev, r, c))

\* a 3 x 3 step under Absolute in which a live corner cell with live cells on
\* the opposite edges is not kept alive by them
C3_Witness ==
    /\ HasStep /\ ~periodic_boundary
    /\ Height(Prev) = 3 /\ Width(Prev) = 3
    /\ Prev[0][0] = 1 /\ Prev[0][2] = 1 /\ Prev[2][0] = 1 /\ Prev[2][2] = 1
    /\ LiveInside(Prev, 0, 0) = 0
    /\ Cur[0][0] = 0

\* C4: under the Periodic policy every cell of the next generation is
\* update_cell of the cell and the sum over the 8 offsets of
\* G[(r+dr) mod H, (c+dc) mod W].
C4_Periodic ==
    (HasStep /\ periodic_boundary) =>
        \A r \in DOMAIN Prev : \A c \in DOMAIN Prev[r] :
            Cur[r][c] = update_cell(Prev[r][c], LiveTorus(Prev, r, c))

\* a 3 x 3 step under Periodic in which the dead corner (0,0) is born from
\* exactly three live cells reached only by wrapping, one of them diagonally
C4_Witness ==
    /\ HasStep /\ periodic_boundary
    /\ Height(Prev) = 3 /\ Width(Prev) = 3
    /\ Prev[0][0] = 0 /\ LiveInside(Prev, 0, 0) = 0
    /\ Prev[2][2] = 1
    /\ LiveTorus(Prev, 0, 0) = 3
    /\ Cur[0][0] = 1

\* C5: run_game on a binary seed returns exactly num_generations generations,
\* index k being the (k+1)-th element of the lazy sequence create_game.
C5_Batch ==
    (run_pc = "returned" /\ IsBinaryCells(grid.cells)) =>
        /\ DOMAIN results = 0..num_generations-1
        /\ \A k \in DOMAIN results :
              results[k] = GameAfter(grid, periodic_boundary, k + 1).grid.cells
        /\ num_generations >= 1 => results[0] = grid.cells

C5_Witness ==
    /\ run_pc = "returned"
    /\ num_generations = MaxGen
    /\ num_generations >= 2
    /\ results[0] = grid.cells
    /\ results[num_generations - 1] # results[0]
    /\ results[num_generations - 1] =
          update_grid([dtype |-> "float", cells |-> results[num_generations - 2]],
                      periodic_boundary).cells

C5_WitnessEmpty ==
    run_pc = "returned" /\ num_generations = 0 /\ results = <<>>

\* C6: once create_game has returned a sequence for a seed with a value outside
\* {0,1}, the validation error has been raised (before any pull).
C6_RaisedAtConstruction ==
    (caller = "lazy" /\ ~IsBinaryCells(grid.cells)) => error = NonBinaryError

\* C7: run_game on a seed with a value outside {0,1} never returns.
C7_NeverReturns ==
    (caller = "batch" /\ ~IsBinaryCells(grid.cells)) => run_pc # "returned"

\* C8: run_game with a negative num_generations fails with an error and
\* returns nothing, whatever the seed and the policy.
C8_NegativeFails ==
    (caller = "batch" /\ num_generations < 0) =>
        /\ run_pc = "raised"
        /\ error # "none"
        /\ results = <<>>

C8_Witness ==
    /\ caller = "batch" /\ num_generations < 0
    /\ run_pc = "raised"
    /\ ~IsBinaryCells(grid.cells)

IsTwoCorner(cells) == cells = TwoCorner(Height(cells), Width(cells))

Smaller(a, b) == IF a <= b THEN a ELSE b
Larger(a, b) == IF a >= b THEN a ELSE b

\* the grid sizes on which the two corners reach a common dead cell three times
\* by wrapping
CornersDiffer(h, w) ==
    \/ Smaller(h, w) = 2 /\ Larger(h, w) >= 3
    \/ Smaller(h, w) = 1 /\ Larger(h, w) >= 4

\* the next generation of the latest step, had the other policy been used
OtherPolicy == update_grid(pulled[Len(pulled) - 1], ~periodic_boundary).cells

\* C9 as stated: on every grid with exactly the corners (0,0) and (H-1,W-1)
\* alive the next generation under Periodic differs from the one under Absolute.
C9_AlwaysDiffer ==
    (HasStep /\ Len(pulled) = 2 /\ IsTwoCorner(grid.cells)) => Cur # OtherPolicy

\* C9 amended: the two next generations differ exactly when the smaller side
\* is 2 and the larger at least 3, or the smaller is 1 and the larger at
\* least 4; on every other size (1x1..1x3, 2x2, and all H, W >= 3) they are equal.
C9_DifferBySize ==
    (HasStep /\ Len(pulled) = 2 /\ IsTwoCorner(grid.cells)) =>
        ((Cur # OtherPolicy) <=> CornersDiffer(Height(grid.cells), Width(grid.cells)))

C9_Witness ==
    /\ HasStep /\ Len(pulled) = 2 /\ IsTwoCorner(grid.cells)
    /\ periodic_boundary
    /\ Height(grid.cells) = 2 /\ Width(grid.cells) = 3
    /\ Cur # OtherPolicy

C9_WitnessEqual ==
    /\ HasStep /\ Len(pulled) = 2 /\ IsTwoCorner(grid.cells)
    /\ periodic_boundary
    /\ Height(grid.cells) = 5 /\ Width(grid.cells) = 5
    /\ Cur = OtherPolicy

\* C10: every cell of every generation yielded by create_game and of every
\* entry of run_game's result is 0 or 1.
C10_Binary ==
    /\ \A k \in 1..Len(pulled) : IsBinaryCells(pulled[k].cells)
    /\ \A k \in DOMAIN results : IsBinaryCells(results[k])

C10_Witness ==
    /\ run_pc = "returned"
    /\ num_generations = MaxGen
    /\ num_generations >= 2
    /\ LET last == results[num_generations - 1]
       IN  /\ \E r \in DOMAIN last : \E c \in DOMAIN last[r] : last[r][c] = 1
           /\ \E r \in DOMAIN last : \E c \in DOMAIN last[r] : last[r][c] = 0

\* C11: every generation pulled from create_game and every entry of run_game's
\* result has the seed's dimensions.
SameShape(a, b) ==
    /\ DOMAIN a = DOMAIN b
    /\ \A r \in DOMAIN a : DOMAIN a[r] = DOMAIN b[r]

C11_Dimensions ==
    /\ \A k \in 1..Len(pulled) : SameShape(pulled[k].cells, grid.cells)
    /\ \A k \in DOMAIN results : SameShape(results[k], grid.cells)

C11_Witness ==
    /\ caller = "lazy"
    /\ Len(pulled) = MaxPulls
    /\ Height(grid.cells) = 2 /\ Width(grid.cells) = 4
    /\ Height(pulled[MaxPulls].cells) = 2 /\ Width(pulled[MaxPulls].cells) = 4
    /\ pulled[MaxPulls].cells # grid.cells

\* C12: the caller's seed array and every generation already yielded hold the
\* values they had when produced, whatever was pulled since; an iteration of
\* run_game leaves the entries stored before it as they were.
C12_StillHeld ==
    /\ heap[SeedRef] = grid
    /\ \A k \in 1..Len(pulled_ref) : heap[pulled_ref[k]] = pulled[k]

C12_EntriesKept ==
    RunGameIter => \A k \in DOMAIN results : k < i => results'[k] = results[k]

C12_NoMutation == [] C12_StillHeld /\ [][C12_EntriesKept]_vars

C12_Witness ==
    /\ caller = "lazy"
    /\ Len(pulled) = 3
    /\ pulled[1].cells # pulled[2].cells
    /\ pulled[2].cells # pulled[3].cells
    /\ pulled_ref[1] # pulled_ref[2] /\ pulled_ref[2] # pulled_ref[3]
    /\ pulled_ref[1] # SeedRef
    /\ heap[pulled_ref[1]] = pulled[1]
    /\ heap[SeedRef] = grid

\* C13: on a binary seed every pull yields a generation: the generator never
\* ends, never raises, and the consumer holds one generation per pull.
C13_NeverEnds ==
    (caller # "idle" /\ run_no = 1 /\ IsBinaryCells(grid.cells)) =>
        /\ gen_state \in {"created", "suspended"}
        /\ last_pull \in {"none", "yield"}
        /\ caller = "lazy" => (Len(pulled) = pulls /\ error = "none")
        /\ caller = "batch" => i = pulls

C13_Witness ==
    /\ caller = "lazy"
    /\ IsBinaryCells(grid.cells)
    /\ pulls = MaxPulls
    /\ Len(pulled) = MaxPulls
    /\ gen_state = "suspended"

\* C14: a centred blinker on a grid of height >= 5 and width >= 5 under the
\* Absolute policy differs from itself after one update and is back after two.
IsBlinker(cells) ==
    /\ Height(cells) >= 5 /\ Width(cells) >= 5
    /\ cells = Blinker(Height(cells), Width(cells))

C14_Blinker ==
    (caller = "lazy" /\ ~periodic_boundary /\ IsBlinker(grid.cells)) =>
        /\ Len(pulled) >= 2 => pulled[2].cells # pulled[1].cells
        /\ Len(pulled) >= 3 => pulled[3].cells = pulled[1].cells

C14_Witness ==
    /\ caller = "lazy" /\ ~periodic_boundary /\ IsBlinker(grid.cells)
    /\ Height(grid.cells) = 6 /\ Width(grid.cells) = 5
    /\ Len(pulled) = 3
    /\ pulled[2].cells[2][2] = 1 /\ pulled[2].cells[4][2] = 1 /\ pulled[2].cells[3][1] = 0
    /\ pulled[3].cells = grid.cells

\* C15: a 2 x 2 block with at least one dead row and column between it and every
\* edge is unchanged by update_grid, under either policy.
IsBlock(cells) ==
    \E r0 \in 1..Height(cells)-3 : \E c0 \in 1..Width(cells)-3 :
        cells = Block(Height(cells), Width(cells), r0, c0)

C15_Block ==
    (caller = "lazy" /\ IsBlock(grid.cells)) =>
        \A k \in 1..Len(pulled) : pulled[k].cells = grid.cells

C15_Witness ==
    /\ caller = "lazy" /\ IsBlock(grid.cells)
    /\ periodic_boundary
    /\ Height(grid.cells) = 4 /\ Width(grid.cells) = 4
    /\ Len(pulled) = 3
    /\ pulled[3].cells = grid.cells

C15_WitnessAbsolute ==
    /\ caller = "lazy" /\ IsBlock(grid.cells)
    /\ ~periodic_boundary
    /\ Height(grid.cells) = 5 /\ Width(grid.cells) = 6
    /\ Len(pulled) = 2
    /\ pulled[2].cells = grid.cells

\* C16: a second run_game with the same seed array, num_generations and policy
\* ends as the first did and returns the same generations, cell by cell.
C16_Deterministic ==
    (run_no = 2 /\ run_pc \in {"returned", "raised"}) =>
        /\ first_run.pc = run_pc
        /\ first_run.error = error
        /\ run_pc = "returned" => first_run.results = results

C16_Witness ==
    /\ run_no = 2 /\ run_pc = "returned"
    /\ num_generations = MaxGen
    /\ num_generations >= 2
    /\ results[1] # results[0]
    /\ first_run.results = results

\* C17: after k >= 1 pulls on a binary seed update_grid has run exactly k - 1
\* times, and what the generator holds is the generation it yielded last.
C17_OnePerPull ==
    (caller # "idle" /\ IsBinaryCells(grid.cells) /\ pulls >= 1) =>
        /\ updates = pulls - 1
        /\ caller = "lazy" =>
              /\ gen_grid = pulled_ref[Len(pulled_ref)]
              /\ heap[gen_grid] = pulled[Len(pulled)]
        /\ caller = "batch" => heap[gen_grid].cells = results[i - 1]

C17_Witness ==
    /\ caller = "lazy" /\ IsBinaryCells(grid.cells)
    /\ pulls = 3 /\ updates = 2
    /\ heap[gen_grid] = pulled[3]
    /\ pulled[3].cells # pulled[2].cells

\* C18: on a grid whose first and last row and first and last column are dead,
\* update_grid gives the same next generation under both policies.
DeadBorder(cells) ==
    \A r \in DOMAIN cells : \A c \in DOMAIN cells[r] :
        (r \in {0, Height(cells) - 1} \/ c \in {0, Width(cells) - 1}) => cells[r][c] = 0

C18_DeadBorderAgree ==
    (HasStep /\ DeadBorder(Prev)) => Cur = OtherPolicy

\* a step from a dead-border grid in which a border cell is born
C18_Witness ==
    /\ HasStep /\ DeadBorder(Prev)
    /\ periodic_boundary
    /\ \E c \in DOMAIN Cur[0] : Cur[0][c] = 1
    /\ Cur = OtherPolicy

====
